---- MODULE Spec2Model ----
(***************************************************************************)
(* The backtesting core of the algo-trading system:                        *)
(*   Backtester.generate_signals  (rule-based signal + forced-exit walk)   *)
(*   Backtester.simulate_trading  (the single-asset ledger walk)           *)
(*                                                                         *)
(* Money is kept as an exact decimal: an integer number of thousandths of  *)
(* a currency unit (Scale = 1000), which represents exactly every product  *)
(* of a whole price, a whole share count and the factors 1.001 / 0.999.    *)
(* The program computes the same quantities in binary floating point; the  *)
(* rounding of the last bits (300*100*1.001 = 30029.999999999996) is not   *)
(* modelled.  Dates are day numbers; date % 7 is the weekday (0 = Monday). *)
(***************************************************************************)
EXTENDS Integers, Sequences, FiniteSets, TLC

\* ------------------------------------------------------------- bounds
\* Rows of a signal table handed to simulate_trading by a caller (Spec).
MaxDays == 4
\* Rows of the fetched price series in a generate+simulate run (SpecPipeline).
NumRows == 24
\* Rows of a fetched series whose indicator reading is not the quiet one.
MaxEvents == 2
\* Rows of a series handed to generate_signals from its first row (SpecHead).
HeadRows == 4
\* Rows of each stock's series in a batch run (SpecBatch).
BatchRows == 2
\* Rows of each of two tables simulated in interleaved calls (SpecInterleaved).
InterleavedDays == 2
\* Rows of a caller's table with undefined prices (SpecMalformed).
MalformedDays == 3

\* ------------------------------------------------- program constants
Scale == 1000
\* self.transaction_cost = 0.001, in units of 1/Scale
transaction_cost == 1
\* self.max_position_size = 0.3, in units of 1/PositionScale
max_position_size == 3
PositionScale == 10
\* the 30 of "days_held >= 30"
ForcedExitDays == 30
\* calculate_rsi(prices, period=14); short_window=20, long_window=50
RsiPeriod == 14
ShortWindow == 20
LongWindow == 50
\* signals['Signal']: 0=Hold, 1=Buy, -1=Sell
Hold == 0
Buy == 1
Sell == -1

\* ------------------------------------------------------------ inputs
\* def __init__(self, initial_capital=100000)
DefaultCapital == 100000
\* Backtester(initial_capital=...), in currency units.
Capitals == {DefaultCapital, 300}
\* Closing prices, whole currency units, > 0.
Prices == {40, 100, 110}
\* The closing price of every row of a fetched series (SpecPipeline).
FetchedPrices == {100}
\* The close of row number n of a series that falls from 100 to 40 after its
\* first day (SpecDropped).
FallingClose(n) == IF n = 1 THEN 100 ELSE 40
\* First date of a series: a Wednesday.
StartDates == {2}
\* The index of the price series holds the exchange's trading days, Monday to
\* Friday: the row after a Friday is the next Monday.
NextTradingDay(d) == IF d % 7 = 4 THEN d + 3 ELSE d + 1
\* Indicator readings (RSI, MA20, MA50) the indicator provider reports for a row.
QuietReading == [RSI |-> 40, MA20 |-> 2, MA50 |-> 2]
EventReadings ==
    { [RSI |-> 20, MA20 |-> 3, MA50 |-> 2],
      [RSI |-> 60, MA20 |-> 2, MA50 |-> 2] }
\* buy_date = None
None == -1
\* self.stocks = ["RELIANCE.NS", "TCS.NS", "INFY.NS"]
NumStocks == 3
\* Closes of a batch run's downloads; 0 is a bad quote.
BatchPrices == {0, 100}
\* Prices of the tables of two interleaved calls.
InterleavedPrices == {100, 110}
\* The undefined reading of a rolling window that is not full yet (rows before
\* the window's length), and of an RSI whose average gain and loss are both 0.
NaN == -1
\* Prices of a table with gaps: a close, or NaN where the quote is missing.
MalformedPrices == {NaN, 100}
\* Readings of a series: RSI in 0..100, moving averages of positive prices.
RSIReadings == {NaN, 20, 30, 40, 50, 60}
MA20Readings == {NaN, 1, 2, 3}
MA50Readings == {NaN, 2, 3}
\* The readings row number n (from 1) of a series can carry: rolling(window=w)
\* gives NaN on the first w - 1 rows; the long window is full only where the
\* short one is.
ReadingsAt(n) ==
    {r \in [RSI : RSIReadings, MA20 : MA20Readings, MA50 : MA50Readings] :
        /\ n < RsiPeriod => r.RSI = NaN
        /\ (n < ShortWindow) <=> (r.MA20 = NaN)
        /\ (n < LongWindow) <=> (r.MA50 = NaN)}
\* Row numbers, one for each stage of the warm-up.
RowNumbers == {1, RsiPeriod, ShortWindow, LongWindow}
\* The date of row number n of a series that starts on the trading day d:
\* n - 1 trading days on, two more days for each weekend in between.
TradingDate(d, n) == d + (n - 1) + 2 * (((d % 7) + (n - 1)) \div 5)

VARIABLES
    pc,                \* "rule" | "rules" | "walk" | "call" | "sim" | "done" | "raised" | "end"
    initial_capital,   \* Backtester.initial_capital, in 1/Scale units
    signals,           \* the signals table: rows [date, Price, ..., Signal]
    wi,                \* position of the forced-exit walk in signals
    in_position,       \* generate_signals' local
    buy_date,          \* generate_signals' local
    portfolio,         \* simulate_trading's ledger {cash, shares, total_value}
    trades,            \* simulate_trading's trade list
    portfolio_history, \* simulate_trading's daily history
    stock,             \* run_complete_analysis: position in self.stocks
    results,           \* run_complete_analysis: one entry per reported stock
    other              \* the suspended one of two calls of simulate_trading

vars == <<pc, initial_capital, signals, wi, in_position, buy_date,
          portfolio, trades, portfolio_history, stock, results, other>>

\* ------------------------------------------------- generate_signals
\* Lines 44-55: Signal = 0, then 1 where the buy condition holds, then -1 where
\* the sell condition holds (the later assignment overwrites the earlier).
\* A comparison of two float columns: False where either side is NaN.
Lt(a, b) == a # NaN /\ b # NaN /\ a < b
Gt(a, b) == a # NaN /\ b # NaN /\ a > b
buy_condition(r) == Lt(r.RSI, 30) /\ Gt(r.MA20, r.MA50)
sell_condition_Strict(r) == Gt(r.RSI, 70) \/ Lt(r.MA20, r.MA50)
sell_condition_Overlap(r) == Gt(r.RSI, 10) \/ Lt(r.MA20, r.MA50)
sell_condition(r) == Gt(r.RSI, 50) \/ Lt(r.MA20, r.MA50)
RuleSignal(r) ==
    LET s0 == Hold
        s1 == IF buy_condition(r) THEN Buy ELSE s0
    IN  IF sell_condition(r) THEN Sell ELSE s1

SignalRow(d) ==
    [date |-> d.date, Price |-> d.Close, RSI |-> d.RSI, MA20 |-> d.MA20,
     MA50 |-> d.MA50, Signal |-> RuleSignal(d)]

\* days_held = (date - buy_date).days
DaysHeld(date, entry) == date - entry
ForcedExitDue_Late(days_held) == days_held > ForcedExitDays
ForcedExitDue(days_held) == days_held >= ForcedExitDays

\* ------------------------------------------------- simulate_trading
\* current_value = cash + shares * price
CurrentValue_Stale(p, price) == p.total_value
CurrentValue(p, price) == p.cash + p.shares * price * Scale
\* investment_amount = current_value * max_position_size
\* shares_to_buy = int(investment_amount / price)
SharesToBuy_Ceil(current_value, price) ==
    (current_value * max_position_size + PositionScale * Scale * price - 1)
        \div (PositionScale * Scale * price)
SharesToBuy_AllIn(current_value, price) == current_value \div (Scale * price)
SharesToBuy(current_value, price) ==
    (current_value * max_position_size) \div (PositionScale * Scale * price)
\* total_cost = shares_to_buy * price * (1 + transaction_cost)
TotalCost_NoFee(n, price) == n * price * Scale
TotalCost(n, price) == n * price * (Scale + transaction_cost)
\* total_sale = shares * price * (1 - transaction_cost)
TotalSale_NoFee(shares, price) == shares * price * Scale
TotalSale_FeeAdded(shares, price) == shares * price * (Scale + transaction_cost)
TotalSale(shares, price) == shares * price * (Scale - transaction_cost)
\* signal == 1 and portfolio['shares'] == 0
BuyBranch_Pyramid(signal, shares) == signal = Buy
BuyBranch_AnySignal(signal, shares) == signal >= 0 /\ shares = 0
BuyBranch(signal, shares) == signal = Buy /\ shares = 0
\* signal == -1 and portfolio['shares'] > 0
SellBranch_AnyState(signal, shares) == signal = Sell
SellBranch(signal, shares) == signal = Sell /\ shares > 0
\* if shares_to_buy > 0
HasShares_OrZero(n) == n >= 0
HasShares(n) == n > 0
\* if total_cost <= portfolio['cash']
Affordable(total_cost, cash) == total_cost <= cash
\* portfolio['cash'] -= total_cost
CashAfterBuy(cash, total_cost) == cash - total_cost
\* portfolio['cash'] += total_sale
CashAfterSell_Debit(cash, total_sale) == cash - total_sale
CashAfterSell(cash, total_sale) == cash + total_sale
\* portfolio['shares'] = 0
SharesAfterSell_Kept(shares) == shares
SharesAfterSell(shares) == 0

HistoryPoint_CashOnly(row, current_value, p) ==
    [date |-> row.date, portfolio_value |-> p.cash, price |-> row.Price,
     cash |-> p.cash, shares |-> p.shares]
HistoryPoint(row, current_value, p) ==
    [date |-> row.date, portfolio_value |-> current_value, price |-> row.Price,
     cash |-> p.cash, shares |-> p.shares]
Trade(row, action, n, value, current_value) ==
    [date |-> row.date, action |-> action, shares |-> n, price |-> row.Price,
     value |-> value, portfolio_value |-> current_value]

\* The ledger before any call of simulate_trading has built one.
NoPortfolio == [cash |-> 0, shares |-> 0, total_value |-> 0]
\* The ledger a call of simulate_trading starts from (lines 85-89).
FreshPortfolio_Carry(capital) ==
    IF portfolio = NoPortfolio
    THEN [cash |-> capital, shares |-> 0, total_value |-> capital]
    ELSE portfolio
FreshPortfolio(capital) ==
    [cash |-> capital, shares |-> 0, total_value |-> capital]

\* One iteration of "for date, row in signals.iterrows()" (lines 94-148) on the
\* ledger p, the trade list t and the history h: what it leaves of them.
LoopResult(row, p, t, h) ==
    LET signal == row.Signal
        price == row.Price
        current_value == CurrentValue(p, price)
        valued == [p EXCEPT !.total_value = current_value]
        history == Append(h, HistoryPoint(row, current_value, valued))
        unchanged == [portfolio |-> valued, trades |-> t,
                      portfolio_history |-> history]
    IN  IF BuyBranch(signal, valued.shares)
        THEN LET shares_to_buy == SharesToBuy(current_value, price)
                 total_cost == TotalCost(shares_to_buy, price)
             IN  IF HasShares(shares_to_buy) /\ Affordable(total_cost, valued.cash)
                 THEN [portfolio |->
                          [valued EXCEPT
                               !.cash = CashAfterBuy(valued.cash, total_cost),
                               !.shares = valued.shares + shares_to_buy],
                       trades |-> Append(t,
                          Trade(row, "BUY", shares_to_buy, total_cost,
                                current_value)),
                       portfolio_history |-> history]
                 ELSE unchanged
        ELSE IF SellBranch(signal, valued.shares)
        THEN LET total_sale == TotalSale(valued.shares, price)
             IN  [portfolio |->
                     [valued EXCEPT
                          !.cash = CashAfterSell(valued.cash, total_sale),
                          !.shares = SharesAfterSell(valued.shares)],
                  trades |-> Append(t,
                     Trade(row, "SELL", valued.shares, total_sale,
                           current_value)),
                  portfolio_history |-> history]
        ELSE unchanged
LoopBody(row) ==
    LET left == LoopResult(row, portfolio, trades, portfolio_history)
    IN  /\ portfolio' = left.portfolio
        /\ trades' = left.trades
        /\ portfolio_history' = left.portfolio_history
\* Line 115 raises on a Buy row whose price is 0: investment_amount / price is
\* inf (numpy float division) and int(inf) is an OverflowError.
Raises(row, shares) == BuyBranch(row.Signal, shares) /\ row.Price = 0

\* Rows of signals the ledger walk has processed so far.
Processed == Len(portfolio_history)

\* --------------------------------------------------------- the actions
\* The locals of a call of simulate_trading (its frame); NoCall: there is no
\* second call.
NoCall == [pc |-> "none", signals |-> <<>>, portfolio |-> NoPortfolio,
           trades |-> <<>>, portfolio_history |-> <<>>]

InitCommon ==
    /\ signals = <<>>
    /\ wi = 1
    /\ in_position = FALSE
    /\ buy_date = None
    /\ portfolio = NoPortfolio
    /\ trades = <<>>
    /\ portfolio_history = <<>>
    /\ stock = 1
    /\ results = <<>>

\* A caller is about to hand a signal table of its own to simulate_trading.
Init ==
    /\ InitCommon
    /\ initial_capital \in {c * Scale : c \in Capitals}
    /\ pc = "call"
    /\ other = NoCall
\* main.py: self.backtester = Backtester(), then for each stock the data is
\* fetched and handed to generate_signals, whose table goes to simulate_trading.
InitPipeline ==
    /\ InitCommon
    /\ initial_capital = DefaultCapital * Scale
    /\ pc = "rules"
    /\ other = NoCall

NextDate(rows) ==
    IF rows = <<>> THEN StartDates ELSE {NextTradingDay(rows[Len(rows)].date)}

Events(rows) == Cardinality({i \in 1..Len(rows) :
                    [RSI |-> rows[i].RSI, MA20 |-> rows[i].MA20,
                     MA50 |-> rows[i].MA50] # QuietReading})

\* generate_signals, lines 35-55, for the next row of the fetched series
\* (data = yf.download(stock, period="6mo")): its close, the readings
\* calculate_rsi / calculate_moving_averages give for it, and its rule-based
\* Signal.  The column assignments of lines 40-55 are row-wise independent.
RuleRow ==
    /\ pc = "rules"
    /\ Len(signals) < NumRows
    /\ \E d \in NextDate(signals), price \in FetchedPrices,
          ind \in {QuietReading} \cup
                  (IF Events(signals) < MaxEvents THEN EventReadings ELSE {}) :
          signals' = Append(signals,
              SignalRow([date |-> d, Close |-> price, RSI |-> ind.RSI,
                         MA20 |-> ind.MA20, MA50 |-> ind.MA50]))
    /\ UNCHANGED <<pc, initial_capital, wi, in_position, buy_date,
                   portfolio, trades, portfolio_history,
                   stock, results, other>>

\* generate_signals, lines 59-60: the walk starts flat.
StartWalk ==
    /\ pc = "rules"
    /\ Len(signals) = NumRows
    /\ wi' = 1
    /\ in_position' = FALSE
    /\ buy_date' = None
    /\ pc' = "walk"
    /\ UNCHANGED <<initial_capital, signals, portfolio, trades, portfolio_history,
                   stock, results, other>>

\* generate_signals, lines 62-75: one iteration of the forced-exit walk.
WalkRow ==
    /\ pc = "walk"
    /\ wi <= Len(signals)
    /\ LET row == signals[wi] IN
         IF row.Signal = Buy /\ ~in_position
         THEN /\ in_position' = TRUE
              /\ buy_date' = row.date
              /\ signals' = signals
         ELSE IF row.Signal = Sell /\ in_position
         THEN /\ in_position' = FALSE
              /\ buy_date' = None
              /\ signals' = signals
         ELSE IF in_position /\ buy_date # None
                 /\ ForcedExitDue(DaysHeld(row.date, buy_date))
         THEN /\ signals' = [signals EXCEPT ![wi].Signal = Sell]
              /\ in_position' = FALSE
              /\ buy_date' = None
         ELSE UNCHANGED <<signals, in_position, buy_date>>
    /\ wi' = wi + 1
    /\ UNCHANGED <<pc, initial_capital, portfolio, trades,
                   portfolio_history,
                   stock, results, other>>

\* generate_signals returns; main.py calls simulate_trading next.
ReturnSignals ==
    /\ pc = "walk"
    /\ wi > Len(signals)
    /\ pc' = "call"
    /\ UNCHANGED <<initial_capital, signals, wi, in_position, buy_date,
                   portfolio, trades, portfolio_history,
                   stock, results, other>>

\* simulate_trading, lines 85-92: fresh ledger, empty lists.
StartSimulation ==
    /\ pc = "call"
    /\ portfolio' = FreshPortfolio(initial_capital)
    /\ trades' = <<>>
    /\ portfolio_history' = <<>>
    /\ pc' = "sim"
    /\ UNCHANGED <<initial_capital, signals, wi, in_position, buy_date,
                   stock, results, other>>

\* simulate_trading on the next row of the generated table.
SimulateRow ==
    /\ pc = "sim"
    /\ Processed < Len(signals)
    /\ ~Raises(signals[Processed + 1], portfolio.shares)
    /\ LoopBody(signals[Processed + 1])
    /\ UNCHANGED <<pc, initial_capital, signals, wi, in_position, buy_date,
                   stock, results, other>>

\* simulate_trading on the next row of a caller's table: any signal, any price.
SimulateCallerRow ==
    /\ pc = "sim"
    /\ Processed = Len(signals)
    /\ Len(signals) < MaxDays
    /\ \E d \in NextDate(signals), price \in Prices, s \in {Hold, Buy, Sell} :
          LET row == [date |-> d, Price |-> price, Signal |-> s]
          IN  /\ signals' = Append(signals, row)
              /\ LoopBody(row)
    /\ UNCHANGED <<pc, initial_capital, wi, in_position, buy_date,
                   stock, results, other>>

\* return trades, portfolio_history, portfolio
Return ==
    /\ pc = "sim"
    /\ Processed = Len(signals)
    /\ pc' = "done"
    /\ UNCHANGED <<initial_capital, signals, wi, in_position, buy_date,
                   portfolio, trades, portfolio_history,
                   stock, results, other>>

Next == StartSimulation \/ SimulateCallerRow \/ Return
Spec == Init /\ [][Next]_vars

NextPipeline ==
    RuleRow \/ StartWalk \/ WalkRow \/ ReturnSignals \/ StartSimulation
    \/ SimulateRow \/ Return
SpecPipeline == InitPipeline /\ [][NextPipeline]_vars

\* generate_signals, lines 35-55, on one row of a series, whatever its readings:
\* the row's number in the series decides which readings are still undefined.
InitRule ==
    /\ InitCommon
    /\ initial_capital = DefaultCapital * Scale
    /\ pc = "rule"
    /\ other = NoCall
EvaluateRule ==
    /\ pc = "rule"
    /\ \E n \in RowNumbers, d \in StartDates, price \in Prices :
          \E ind \in ReadingsAt(n) :
              signals' = <<SignalRow([date |-> TradingDate(d, n), Close |-> price,
                                      RSI |-> ind.RSI, MA20 |-> ind.MA20,
                                      MA50 |-> ind.MA50])>>
    /\ UNCHANGED <<pc, initial_capital, wi, in_position, buy_date,
                   portfolio, trades, portfolio_history,
                   stock, results, other>>
NextRule == EvaluateRule
SpecRule == InitRule /\ [][NextRule]_vars

\* generate_signals on a series of HeadRows rows, from its first row on: the
\* rows of the warm-up.
HeadRow ==
    /\ pc = "rules"
    /\ Len(signals) < HeadRows
    /\ \E d \in NextDate(signals), price \in Prices,
          ind \in ReadingsAt(Len(signals) + 1) :
          signals' = Append(signals,
              SignalRow([date |-> d, Close |-> price, RSI |-> ind.RSI,
                         MA20 |-> ind.MA20, MA50 |-> ind.MA50]))
    /\ UNCHANGED <<pc, initial_capital, wi, in_position, buy_date,
                   portfolio, trades, portfolio_history,
                   stock, results, other>>
StartHeadWalk ==
    /\ pc = "rules"
    /\ Len(signals) = HeadRows
    /\ wi' = 1
    /\ in_position' = FALSE
    /\ buy_date' = None
    /\ pc' = "walk"
    /\ UNCHANGED <<initial_capital, signals, portfolio, trades, portfolio_history,
                   stock, results, other>>
NextHead == HeadRow \/ StartHeadWalk \/ WalkRow \/ ReturnSignals
SpecHead == InitPipeline /\ [][NextHead]_vars

\* ------------------------------------------- run_complete_analysis (main.py)
\* return_pct of line 75, in thousandths of a percent.
ReturnPct(total_value, capital) ==
    (total_value - capital) \div (capital \div (100 * Scale))

InitBatch ==
    /\ InitCommon
    /\ initial_capital = DefaultCapital * Scale
    /\ pc = "rules"
    /\ other = NoCall
\* Lines 68 and 71 for the next row of the current stock's download.
BatchRow ==
    /\ pc = "rules"
    /\ Len(signals) < BatchRows
    /\ \E d \in NextDate(signals), price \in BatchPrices,
          ind \in {QuietReading} \cup EventReadings :
          signals' = Append(signals,
              SignalRow([date |-> d, Close |-> price, RSI |-> ind.RSI,
                         MA20 |-> ind.MA20, MA50 |-> ind.MA50]))
    /\ UNCHANGED <<pc, initial_capital, wi, in_position, buy_date,
                   portfolio, trades, portfolio_history, stock, results, other>>
StartBatchWalk ==
    /\ pc = "rules"
    /\ Len(signals) = BatchRows
    /\ wi' = 1
    /\ in_position' = FALSE
    /\ buy_date' = None
    /\ pc' = "walk"
    /\ UNCHANGED <<initial_capital, signals, portfolio, trades,
                   portfolio_history, stock, results, other>>
\* simulate_trading on a row that raises at line 115, after lines 99-109 ran.
\* Neither simulate_trading nor the loop of run_complete_analysis catches it:
\* the exception leaves run_complete_analysis, and results with it.
RaiseInSimulation ==
    /\ pc = "sim"
    /\ Processed < Len(signals)
    /\ Raises(signals[Processed + 1], portfolio.shares)
    /\ LET row == signals[Processed + 1]
           current_value == CurrentValue(portfolio, row.Price)
           valued == [portfolio EXCEPT !.total_value = current_value]
       IN  /\ portfolio' = valued
           /\ portfolio_history' =
                  Append(portfolio_history, HistoryPoint(row, current_value, valued))
    /\ pc' = "raised"
    /\ UNCHANGED <<initial_capital, signals, wi, in_position, buy_date, trades,
                   stock, results, other>>
\* Lines 75-88, and the loop's step to the next stock: the tables and lists of
\* this stock are rebound by lines 68-72 before they are read again; the ledger
\* object stays as it is until line 85 builds the next one.
Report ==
    /\ pc = "done"
    /\ stock <= NumStocks
    /\ results' = Append(results,
           [return |-> ReturnPct(portfolio.total_value, initial_capital),
            trades |-> Len(trades)])
    /\ stock' = stock + 1
    /\ pc' = IF stock < NumStocks THEN "rules" ELSE "end"
    /\ signals' = <<>>
    /\ wi' = 1
    /\ in_position' = FALSE
    /\ buy_date' = None
    /\ trades' = <<>>
    /\ portfolio_history' = <<>>
    /\ UNCHANGED <<initial_capital, portfolio, other>>
NextBatch ==
    BatchRow \/ StartBatchWalk \/ WalkRow \/ ReturnSignals \/ StartSimulation
    \/ SimulateRow \/ RaiseInSimulation \/ Return \/ Report
SpecBatch == InitBatch /\ [][NextBatch]_vars

\* ------------------------- two calls of simulate_trading on one Backtester
\* The frame of the running call, and the ledger a frame holds: portfolio is a
\* local of the call (line 85), not a field of the Backtester.
Frame == [pc |-> pc, signals |-> signals, portfolio |-> portfolio,
          trades |-> trades, portfolio_history |-> portfolio_history]
LedgerOf_Field(frame) == portfolio
LedgerOf(frame) == frame.portfolio
InitInterleaved ==
    /\ InitCommon
    /\ initial_capital = DefaultCapital * Scale
    /\ pc = "call"
    /\ other = [NoCall EXCEPT !.pc = "call"]
\* simulate_trading on the next row of the running call's table.
InterleavedRow ==
    /\ pc = "sim"
    /\ Processed = Len(signals)
    /\ Len(signals) < InterleavedDays
    /\ \E d \in NextDate(signals), price \in InterleavedPrices,
          s \in {Hold, Buy, Sell} :
          LET row == [date |-> d, Price |-> price, Signal |-> s]
          IN  /\ signals' = Append(signals, row)
              /\ LoopBody(row)
    /\ UNCHANGED <<pc, initial_capital, wi, in_position, buy_date,
                   stock, results, other>>
\* The running call is suspended between two steps and the other one resumes.
Switch ==
    /\ other.pc # "none"
    /\ other' = Frame
    /\ pc' = other.pc
    /\ signals' = other.signals
    /\ portfolio' = LedgerOf(other)
    /\ trades' = other.trades
    /\ portfolio_history' = other.portfolio_history
    /\ UNCHANGED <<initial_capital, wi, in_position, buy_date, stock, results>>
NextInterleaved == StartSimulation \/ InterleavedRow \/ Return \/ Switch
SpecInterleaved == InitInterleaved /\ [][NextInterleaved]_vars

\* ----------------- generate_signals + simulate_trading with a small capital
\* A Backtester whose capital buys no share at the first day's close: a Buy
\* signal on that day is dropped by simulate_trading (line 117).
InitDropped ==
    /\ InitCommon
    /\ initial_capital \in {c * Scale : c \in Capitals \ {DefaultCapital}}
    /\ pc = "rules"
    /\ other = NoCall
\* generate_signals, lines 35-55, for the next row of the falling series.
DroppedRow ==
    /\ pc = "rules"
    /\ Len(signals) < NumRows
    /\ \E d \in NextDate(signals),
          ind \in {QuietReading} \cup
                  (IF Events(signals) < MaxEvents THEN EventReadings ELSE {}) :
          signals' = Append(signals,
              SignalRow([date |-> d, Close |-> FallingClose(Len(signals) + 1),
                         RSI |-> ind.RSI, MA20 |-> ind.MA20, MA50 |-> ind.MA50]))
    /\ UNCHANGED <<pc, initial_capital, wi, in_position, buy_date,
                   portfolio, trades, portfolio_history, stock, results, other>>
NextDropped ==
    DroppedRow \/ StartWalk \/ WalkRow \/ ReturnSignals \/ StartSimulation
    \/ SimulateRow \/ Return
SpecDropped == InitDropped /\ [][NextDropped]_vars

\* ------------------------------------ simulate_trading on undefined prices
\* A row touches an undefined float: its price is NaN, or cash already is.
Tainted(row, p) == row.Price = NaN \/ p.cash = NaN
\* Lines 94-148 on such a row.  current_value = cash + shares * price is NaN
\* (0 * NaN is NaN too), and so is every float computed from it; the tests on
\* signal and shares compare integers.  A Sell while Holding credits
\* total_sale = shares * NaN * 0.999 and records it; the Buy branch is the
\* row of RaiseOnUndefined.
NaNResult(row, p, t, h) ==
    LET valued == [p EXCEPT !.total_value = NaN]
        history == Append(h, HistoryPoint(row, NaN, valued))
    IN  IF SellBranch(row.Signal, valued.shares)
        THEN [portfolio |-> [valued EXCEPT !.cash = NaN,
                                 !.shares = SharesAfterSell(valued.shares)],
              trades |-> Append(t, Trade(row, "SELL", valued.shares, NaN, NaN)),
              portfolio_history |-> history]
        ELSE [portfolio |-> valued, trades |-> t, portfolio_history |-> history]
\* simulate_trading on the next row of a caller's table whose prices may be
\* undefined.
SimulateMalformedRow ==
    /\ pc = "sim"
    /\ Processed = Len(signals)
    /\ Len(signals) < MalformedDays
    /\ \E d \in NextDate(signals), price \in MalformedPrices,
          s \in {Hold, Buy, Sell} :
          LET row == [date |-> d, Price |-> price, Signal |-> s]
          IN  /\ ~(Tainted(row, portfolio) /\ BuyBranch(s, portfolio.shares))
              /\ signals' = Append(signals, row)
              /\ IF Tainted(row, portfolio)
                 THEN LET left == NaNResult(row, portfolio, trades,
                                            portfolio_history)
                      IN  /\ portfolio' = left.portfolio
                          /\ trades' = left.trades
                          /\ portfolio_history' = left.portfolio_history
                 ELSE LoopBody(row)
    /\ UNCHANGED <<pc, initial_capital, wi, in_position, buy_date,
                   stock, results, other>>
\* A Buy row while Flat whose current_value is NaN: after lines 99-109,
\* int(investment_amount / price) at line 115 is int(nan), a ValueError.
RaiseOnUndefined ==
    /\ pc = "sim"
    /\ Processed = Len(signals)
    /\ Len(signals) < MalformedDays
    /\ \E d \in NextDate(signals), price \in MalformedPrices :
          LET row == [date |-> d, Price |-> price, Signal |-> Buy]
              valued == [portfolio EXCEPT !.total_value = NaN]
          IN  /\ Tainted(row, portfolio) /\ BuyBranch(Buy, portfolio.shares)
              /\ signals' = Append(signals, row)
              /\ portfolio' = valued
              /\ portfolio_history' =
                     Append(portfolio_history, HistoryPoint(row, NaN, valued))
    /\ pc' = "raised"
    /\ UNCHANGED <<initial_capital, wi, in_position, buy_date, trades,
                   stock, results, other>>
NextMalformed ==
    StartSimulation \/ SimulateMalformedRow \/ RaiseOnUndefined \/ Return
SpecMalformed == Init /\ [][NextMalformed]_vars

\* =====================================================================
\* Properties.  The formulas below restate each claim with their own
\* arithmetic (thousandths of a currency unit) on the recorded run.
\* =====================================================================
Simulating == pc \in {"sim", "done"}
\* The ledger as day i found it: the history point records cash and shares before
\* that day's trade.
Before(i) == portfolio_history[i]
\* The ledger as day i left it: what day i+1 found, or the current ledger.
After(i) ==
    IF i < Len(portfolio_history)
    THEN [cash |-> portfolio_history[i + 1].cash,
          shares |-> portfolio_history[i + 1].shares]
    ELSE [cash |-> portfolio.cash, shares |-> portfolio.shares]
TradesOn(d) == {k \in 1..Len(trades) : trades[k].date = d}
Days == 1..Len(portfolio_history)
\* floor(V * 0.3 / price), V in thousandths
ClaimedShares(V, price) == (3 * V) \div (10 * 1000 * price)
\* n * price * (1 + 0.001), in thousandths
ClaimedCost(n, price) == n * price * 1001
\* n * price * (1 - 0.001), in thousandths
ClaimedProceeds(n, price) == n * price * 999

\* C1: after every processed timestamp the ledger has cash >= 0 and shares >= 0
\* (prices > 0, initial capital >= 0, 0 <= fee < 1).
C1_LedgerNonNegative ==
    /\ portfolio.cash >= 0 /\ portfolio.shares >= 0
    /\ \A i \in Days : After(i).cash >= 0 /\ After(i).shares >= 0
C1_Witness ==
    /\ pc = "sim" /\ Len(trades) >= 2 /\ Len(portfolio_history) >= 3
    /\ trades[2].value > portfolio_history[2].cash

\* C2: the trade list alternates BUY, SELL, BUY, SELL, ... starting with BUY, and
\* a position is open exactly after an odd number of trades (no pyramiding, no
\* shorting, at most one open position).
C2_TradesAlternate ==
    /\ \A k \in 1..Len(trades) :
          trades[k].action = (IF k % 2 = 1 THEN "BUY" ELSE "SELL")
    /\ (portfolio.shares > 0) <=> (Len(trades) % 2 = 1)
C2_Witness ==
    /\ Len(trades) >= 3
    /\ \E i \in Days : signals[i].Signal = 1 /\ Before(i).shares > 0

\* C7: a signal series that is Hold at every timestamp yields no trade, a ledger
\* whose cash and shares stay (initial_capital, 0) on every day, and a total
\* value equal to initial_capital, whatever the prices.
C7_AllHold ==
    (Simulating /\ \A i \in 1..Len(signals) : signals[i].Signal = 0)
        => /\ trades = <<>>
           /\ portfolio.cash = initial_capital
           /\ portfolio.shares = 0
           /\ portfolio.total_value = initial_capital
           /\ \A i \in Days :
                 /\ Before(i).cash = initial_capital
                 /\ Before(i).shares = 0
                 /\ Before(i).portfolio_value = initial_capital
C7_Witness ==
    /\ pc = "done"
    /\ Len(signals) >= 3
    /\ \A i \in 1..Len(signals) : signals[i].Signal = 0
    /\ signals[1].Price # signals[2].Price

\* C8: on a Buy signal while Flat, n = floor(V * 0.3 / price) with V the day's
\* pre-trade total value; the Buy executes iff n > 0 and n * price * 1.001 <= cash;
\* when it executes cash falls by exactly that cost, shares becomes n and one
\* BUY trade with shares = n is appended.
C8_BuySizing ==
    \A i \in Days :
        (signals[i].Signal = 1 /\ Before(i).shares = 0) =>
            LET price == signals[i].Price
                V == Before(i).cash + Before(i).shares * price * 1000
                n == ClaimedShares(V, price)
                cost == ClaimedCost(n, price)
                on == TradesOn(signals[i].date)
            IN  /\ (on # {}) <=> (n > 0 /\ cost <= Before(i).cash)
                /\ on # {} =>
                      /\ Cardinality(on) = 1
                      /\ \A k \in on : /\ trades[k].action = "BUY"
                                       /\ trades[k].shares = n
                      /\ After(i).cash = Before(i).cash - cost
                      /\ After(i).shares = n
C8_Witness ==
    \E i \in Days :
        /\ i > 1
        /\ signals[i].Signal = 1 /\ Before(i).shares = 0
        /\ Before(i).cash # initial_capital
        /\ TradesOn(signals[i].date) # {}
        /\ (3 * Before(i).cash) % (10 * 1000 * signals[i].Price) # 0

\* C9: on a Sell signal while Holding the Sell always executes: cash rises by
\* exactly shares * price * 0.999, shares becomes 0, and one SELL trade is
\* appended for the full quantity held, its value the credited proceeds.
C9_SellAll ==
    \A i \in Days :
        (signals[i].Signal = -1 /\ Before(i).shares > 0) =>
            LET proceeds == ClaimedProceeds(Before(i).shares, signals[i].Price)
                on == TradesOn(signals[i].date)
            IN  /\ Cardinality(on) = 1
                /\ \A k \in on : /\ trades[k].action = "SELL"
                                 /\ trades[k].shares = Before(i).shares
                                 /\ trades[k].value = proceeds
                /\ After(i).cash = Before(i).cash + proceeds
                /\ After(i).shares = 0
C9_Witness ==
    \E i \in Days :
        /\ signals[i].Signal = -1 /\ Before(i).shares > 0
        /\ i < Len(portfolio_history)

\* C10: a Buy signal while Flat whose share count is 0 or whose cost exceeds cash
\* appends no trade and leaves cash and shares unchanged, the run going on; the
\* dropped Buy is not retried: every BUY trade is dated at a row whose own
\* signal is Buy.
C10_Dropped(i) ==
    /\ signals[i].Signal = 1 /\ Before(i).shares = 0
    /\ LET n == ClaimedShares(Before(i).cash, signals[i].Price)
       IN  n = 0 \/ ClaimedCost(n, signals[i].Price) > Before(i).cash
C10_DroppedBuy ==
    /\ \A i \in Days :
          C10_Dropped(i) =>
              /\ TradesOn(signals[i].date) = {}
              /\ After(i).cash = Before(i).cash
              /\ After(i).shares = 0
    /\ \A k \in 1..Len(trades) :
          trades[k].action = "BUY" =>
              \E i \in Days : /\ signals[i].date = trades[k].date
                              /\ signals[i].Signal = 1
C10_Witness ==
    \E i \in Days :
        /\ C10_Dropped(i)
        /\ i + 2 <= Len(portfolio_history)
        /\ signals[i + 1].Signal = 0
        /\ signals[i + 2].Signal = 1
        /\ TradesOn(signals[i + 2].date) # {}

\* C5: the concrete scenario, capital 100000, Day1 (price 100, Buy), Day2
\* (price 110, Sell): BUY of 300 shares costing 30030 leaving cash 69970 and
\* shares 300, SELL with proceeds 32967, final ledger cash 102937, shares 0,
\* total_value 102937.
C5_Scenario ==
    (/\ pc = "done"
     /\ initial_capital = 100000 * 1000
     /\ Len(signals) = 2
     /\ signals[1].Price = 100 /\ signals[1].Signal = 1
     /\ signals[2].Price = 110 /\ signals[2].Signal = -1)
        => /\ Len(trades) = 2
           /\ trades[1].action = "BUY" /\ trades[1].shares = 300
           /\ trades[1].value = 30030 * 1000
           /\ After(1).cash = 69970 * 1000 /\ After(1).shares = 300
           /\ trades[2].action = "SELL" /\ trades[2].value = 32967 * 1000
           /\ portfolio.cash = 102937 * 1000
           /\ portfolio.shares = 0
           /\ portfolio.total_value = 102937 * 1000

\* C6: the returned ledger satisfies total_value = cash + shares * (price at the
\* last timestamp), also when a trade executes on the last timestamp.
C6_TotalValue ==
    (pc = "done" /\ Len(signals) >= 1) =>
        portfolio.total_value =
            portfolio.cash
                + portfolio.shares * signals[Len(signals)].Price * 1000

\* ------------------------------------- generate_signals + simulate_trading
Buys == {k \in 1..Len(trades) : trades[k].action = "BUY"}
Rows == 1..Len(signals)
\* The rule-based Sell condition at row i: RSI > 50 or MA20 < MA50.
RuleSellAt(i) == signals[i].RSI > 50 \/ signals[i].MA20 < signals[i].MA50
\* The position opened by BUY trade k meets no rule-based Sell afterwards, and
\* the series extends to 30 calendar days after it or later.
C4_Case(k) ==
    /\ \A i \in Rows : signals[i].date > trades[k].date => ~RuleSellAt(i)
    /\ \E i \in Rows : signals[i].date >= trades[k].date + 30

\* C3 (as claimed): every BUY trade is followed, later in the same run, by
\* exactly one SELL trade that closes it; no run ends with the position open.
C3_EveryBuyClosed ==
    pc = "done" =>
        /\ portfolio.shares = 0
        /\ \A k \in Buys : k < Len(trades) /\ trades[k + 1].action = "SELL"
\* C3 (amended): every BUY trade is followed by at most one SELL trade, at a
\* later date and for the BUY's full quantity, before any other trade; the SELL
\* is missing only for the last BUY of a run in which no Sell signal (rule-based
\* or forced) follows it, and the run then ends with that position open.
C3_BuyClosedOrOpenAtEnd ==
    pc = "done" =>
        /\ \A k \in Buys :
              \/ /\ k < Len(trades)
                 /\ trades[k + 1].action = "SELL"
                 /\ trades[k + 1].shares = trades[k].shares
                 /\ trades[k + 1].date > trades[k].date
                 /\ k + 2 <= Len(trades) => trades[k + 2].action = "BUY"
              \/ /\ k = Len(trades)
                 /\ portfolio.shares = trades[k].shares
                 /\ \A i \in Rows :
                       signals[i].date > trades[k].date => signals[i].Signal # -1
        /\ portfolio.shares > 0 => Len(trades) \in Buys
C3_Witness ==
    /\ pc = "done"
    /\ Len(trades) = 3
    /\ portfolio.shares > 0

\* C4 (as claimed): a position opened by a BUY on day D that meets no rule-based
\* Sell afterwards is closed by a SELL trade dated on or before D + 30, when the
\* series extends to D + 30 or later.
C4_SellByDay30 ==
    pc = "done" =>
        \A k \in Buys :
            C4_Case(k) =>
                \E j \in 1..Len(trades) :
                    /\ j > k
                    /\ trades[j].action = "SELL"
                    /\ trades[j].date <= trades[k].date + 30
\* C4 (amended): ... is closed by a SELL trade, the next trade of the run, dated
\* on or before the first timestamp of the series whose date is D + 30 or later
\* (D + 30 itself when it is a timestamp of the series, a later date when it is
\* not, as when D + 30 falls on a weekend).
C4_SellByFirstRowFromDay30 ==
    pc = "done" =>
        \A k \in Buys :
            C4_Case(k) =>
                /\ k < Len(trades)
                /\ trades[k + 1].action = "SELL"
                /\ \A i \in Rows :
                      signals[i].date >= trades[k].date + 30
                          => trades[k + 1].date <= signals[i].date
C4_Witness ==
    /\ pc = "done"
    /\ \E k \in Buys :
          /\ C4_Case(k)
          /\ k < Len(trades)
          /\ trades[k + 1].action = "SELL"
          /\ trades[k + 1].date > trades[k].date + 30

\* ------------------------------------------- simulate_trading, continued
\* Net cash and share flow of the trades dated before d, from the trade records.
RECURSIVE CashFlow(_, _)
CashFlow(k, d) ==
    IF k = 0 THEN 0
    ELSE CashFlow(k - 1, d)
         + (IF trades[k].date >= d THEN 0
            ELSE IF trades[k].action = "SELL" THEN trades[k].value
            ELSE 0 - trades[k].value)
RECURSIVE ShareFlow(_, _)
ShareFlow(k, d) ==
    IF k = 0 THEN 0
    ELSE ShareFlow(k - 1, d)
         + (IF trades[k].date >= d THEN 0
            ELSE IF trades[k].action = "BUY" THEN trades[k].shares
            ELSE 0 - trades[k].shares)
\* The trades dated on or before d.
TradesUpTo(d) == {k \in 1..Len(trades) : trades[k].date <= d}
LastTradeUpTo(d) == CHOOSE k \in TradesUpTo(d) : \A j \in TradesUpTo(d) : j <= k

\* C11: with fee > 0, price > 0 and shares > 0 the recorded value of a BUY is
\* strictly greater than shares * price and that of a SELL strictly less.
C11_FeeMonotone ==
    \A k \in 1..Len(trades) :
        /\ trades[k].shares > 0 /\ trades[k].price > 0
        /\ trades[k].action = "BUY"
              => trades[k].value > trades[k].shares * trades[k].price * 1000
        /\ trades[k].action = "SELL"
              => trades[k].value < trades[k].shares * trades[k].price * 1000
C11_Witness ==
    /\ Len(trades) >= 2
    /\ trades[1].action = "BUY" /\ trades[2].action = "SELL"

\* C14: after every processed prefix the number of BUY trades is at most the
\* number of processed timestamps at which the ledger was Flat and the signal
\* Buy; from an executed BUY to the next SELL the ledger holds exactly that
\* BUY's shares, and the trade after a BUY is a SELL.
C14_BuysBounded ==
    /\ \A i \in Days :
          Cardinality({k \in TradesUpTo(signals[i].date) :
                          trades[k].action = "BUY"})
              <= Cardinality({j \in 1..i :
                                 signals[j].Signal = 1 /\ Before(j).shares = 0})
    /\ \A k \in 1..Len(trades) :
          trades[k].action = "BUY" =>
              /\ k < Len(trades) => trades[k + 1].action = "SELL"
              /\ \A j \in Days :
                    (/\ signals[j].date >= trades[k].date
                     /\ k < Len(trades) => signals[j].date < trades[k + 1].date)
                        => After(j).shares = trades[k].shares
C14_Witness ==
    /\ Len(trades) >= 2
    /\ Len(portfolio_history) >= 4
    /\ trades[2].date > signals[2].date
    /\ Cardinality({j \in Days : signals[j].Signal = 1 /\ Before(j).shares = 0})
          > Cardinality({k \in 1..Len(trades) : trades[k].action = "BUY"})

\* C18: one history point per processed timestamp, in input order; the point for
\* day t records the ledger as day t-1 left it (the initial ledger on the first
\* day) with portfolio_value = that cash + those shares * price_t, and a trade
\* executed on day t carries the same portfolio_value.
C18_HistoryPreTrade ==
    /\ Len(portfolio_history) <= Len(signals)
    /\ pc = "done" => Len(portfolio_history) = Len(signals)
    /\ \A i \in Days :
          LET h == portfolio_history[i]
              d == signals[i].date
          IN  /\ h.date = d
              /\ h.price = signals[i].Price
              /\ h.cash = initial_capital + CashFlow(Len(trades), d)
              /\ h.shares = ShareFlow(Len(trades), d)
              /\ h.portfolio_value = h.cash + h.shares * h.price * 1000
              /\ \A k \in TradesOn(d) : trades[k].portfolio_value = h.portfolio_value
C18_Witness ==
    /\ pc = "done"
    /\ Len(portfolio_history) >= 4
    /\ Len(trades) >= 2
    /\ \E i \in Days : TradesOn(signals[i].date) = {} /\ Before(i).shares > 0

\* C20: after every simulated day the shares held are 0 or exactly the share
\* count of the most recent BUY trade, and non-zero exactly when the last
\* recorded trade is a BUY.
C20_SharesOfLastBuy ==
    \A i \in Days :
        LET d == signals[i].date
            open == /\ TradesUpTo(d) # {}
                    /\ trades[LastTradeUpTo(d)].action = "BUY"
        IN  /\ After(i).shares # 0 <=> open
            /\ After(i).shares =
                  (IF open THEN trades[LastTradeUpTo(d)].shares ELSE 0)
C20_Witness ==
    /\ Len(trades) >= 3
    /\ portfolio.shares > 0
    /\ portfolio.shares # trades[1].shares

\* ------------------------------------------------ generate_signals, continued
Undefined(x) == x = NaN
\* The rule as claimed: Sell if RSI > 50 or MA20 < MA50, otherwise Buy if
\* RSI < 30 and MA20 > MA50, otherwise Hold; no comparison holds of an
\* undefined reading.
ClaimedSell(r) ==
    \/ ~Undefined(r.RSI) /\ r.RSI > 50
    \/ ~Undefined(r.MA20) /\ ~Undefined(r.MA50) /\ r.MA20 < r.MA50
ClaimedBuy(r) ==
    /\ ~Undefined(r.RSI) /\ r.RSI < 30
    /\ ~Undefined(r.MA20) /\ ~Undefined(r.MA50) /\ r.MA20 > r.MA50
ClaimedRule(r) == IF ClaimedSell(r) THEN -1 ELSE IF ClaimedBuy(r) THEN 1 ELSE 0

\* C12: before the forced-exit pass each timestamp's signal is Sell if RSI > 50
\* or MA20 < MA50, otherwise Buy if RSI < 30 and MA20 > MA50, otherwise Hold.
C12_RuleSignal ==
    pc \in {"rule", "rules"} =>
        \A i \in Rows : signals[i].Signal = ClaimedRule(signals[i])
C12_Witness ==
    /\ pc = "rule"
    /\ \E i \in Rows :
          /\ signals[i].RSI = 20 /\ signals[i].MA20 < signals[i].MA50
          /\ signals[i].MA20 # NaN
          /\ signals[i].Signal = -1

\* C13: the series generate_signals returns has no entry for a timestamp at
\* which RSI, MA20 or MA50 is undefined: warm-up rows are dropped.
C13_NoWarmupRows ==
    pc = "call" =>
        \A i \in Rows : /\ ~Undefined(signals[i].RSI)
                        /\ ~Undefined(signals[i].MA20)
                        /\ ~Undefined(signals[i].MA50)

\* C19: the forced-exit pass changes the signal at a timestamp t iff the walk
\* is in-position with entry date e before t, the rule-based signal at t is not
\* Sell and (t - e).days >= 30; the signal at t then becomes Sell and the walk
\* flat.  At every other timestamp the signal stays the rule-based one.
C19_ForcedExitOnly ==
    [][(pc = "walk" /\ wi' = wi + 1) =>
          LET t == signals[wi].date
              rule == ClaimedRule(signals[wi])
              due == in_position /\ rule # -1 /\ t - buy_date >= 30
          IN  /\ signals[wi].Signal = rule
              /\ (signals'[wi].Signal # rule) <=> due
              /\ due => signals'[wi].Signal = -1 /\ ~in_position'
              /\ \A j \in Rows : j # wi => signals'[j] = signals[j]
              /\ \A j \in 1..(wi - 1) :
                    signals'[j].Signal \in {ClaimedRule(signals[j]), -1}]_vars
C19_Witness ==
    /\ pc = "walk"
    /\ \E i \in 1..(wi - 1) :
          signals[i].Signal = -1 /\ ClaimedRule(signals[i]) = 1

\* ------------------------------------------------ several symbols, one Backtester
\* C15: in a batch run a failure while generating signals or simulating one
\* symbol does not keep the remaining symbols of the batch from being simulated
\* and reported.
C15_OthersReported ==
    pc \in {"raised", "end"} =>
        \A s \in 1..NumStocks : (pc = "end" \/ s # stock) => s <= Len(results)

\* A call of simulate_trading on its own: from cash = initial_capital and no
\* shares, through the first k rows of the table.
RECURSIVE RunAlone(_, _)
RunAlone(rows, k) ==
    IF k = 0
    THEN [portfolio |-> [cash |-> initial_capital, shares |-> 0,
                         total_value |-> initial_capital],
          trades |-> <<>>, portfolio_history |-> <<>>]
    ELSE LET before == RunAlone(rows, k - 1)
         IN  LoopResult(rows[k], before.portfolio, before.trades,
                        before.portfolio_history)
AsAlone(f) ==
    f.pc \in {"sim", "done"} =>
        LET alone == RunAlone(f.signals, Len(f.portfolio_history))
        IN  /\ f.portfolio = alone.portfolio
            /\ f.trades = alone.trades
            /\ f.portfolio_history = alone.portfolio_history

\* C16: every call of simulate_trading starts from a fresh ledger and leaves the
\* Backtester's fields unchanged, so the trades, history and ledger of a symbol
\* are those of simulating it alone, whatever symbols were simulated before it.
C16_FreshPerCall ==
    /\ [](AsAlone([pc |-> pc, signals |-> signals, portfolio |-> portfolio,
                   trades |-> trades, portfolio_history |-> portfolio_history]))
    /\ [][initial_capital' = initial_capital]_vars
    /\ [][(pc = "call" /\ pc' = "sim") =>
             /\ portfolio' = [cash |-> initial_capital, shares |-> 0,
                              total_value |-> initial_capital]
             /\ trades' = <<>>
             /\ portfolio_history' = <<>>]_vars
C16_Witness ==
    /\ stock > 1
    /\ pc = "done"
    /\ Len(trades) > 0
    /\ results[1].trades > 0

\* C17: when the simulations of two symbols on one Backtester are interleaved
\* step by step in any order, each symbol's trades, history and ledger are
\* those of running that symbol alone.
C17_InterleavedAsAlone ==
    other.pc # "none" =>
        /\ AsAlone(other)
        /\ AsAlone([other EXCEPT !.pc = pc, !.signals = signals,
                                 !.portfolio = portfolio, !.trades = trades,
                                 !.portfolio_history = portfolio_history])
C17_Witness ==
    /\ pc = "sim" /\ other.pc = "sim"
    /\ Len(trades) > 0 /\ Len(other.trades) > 0
    /\ signals # other.signals
    /\ Len(signals) = InterleavedDays /\ Len(other.signals) = InterleavedDays

\* ------------------------------------------------ simulate_trading, continued
NoTradeOn(i) == TradesOn(signals[i].date) = {}
\* cash + shares * price, in thousandths
ClaimedValue(l, price) == l.cash + l.shares * price * 1000

\* C21: a Buy signal while Holding and a Sell signal while Flat each leave cash,
\* shares and the trade list unchanged; only the day's history point is
\* appended.
C21_Mismatch(i) ==
    \/ signals[i].Signal = 1 /\ Before(i).shares > 0
    \/ signals[i].Signal = -1 /\ Before(i).shares = 0
C21_MismatchNoOp ==
    /\ Simulating => Len(portfolio_history) = Len(signals)
    /\ \A i \in Days :
          C21_Mismatch(i) =>
              /\ NoTradeOn(i)
              /\ After(i).cash = Before(i).cash
              /\ After(i).shares = Before(i).shares
C21_Witness ==
    /\ \E i \in Days : signals[i].Signal = 1 /\ Before(i).shares > 0
    /\ \E i \in Days : signals[i].Signal = -1 /\ Before(i).shares = 0
                       /\ Before(i).cash # initial_capital

\* C22: on a day on which no trade executes cash and shares are unchanged and
\* the ledger's total_value after that day is cash + shares * that day's price.
C22_MarkToMarket ==
    \A i \in Days :
        NoTradeOn(i) =>
            /\ After(i).cash = Before(i).cash
            /\ After(i).shares = Before(i).shares
            /\ Before(i).portfolio_value = ClaimedValue(After(i), signals[i].Price)
            /\ i = Len(portfolio_history) =>
                  portfolio.total_value = ClaimedValue(portfolio, signals[i].Price)
C22_Witness ==
    /\ Len(portfolio_history) >= 3
    /\ LET i == Len(portfolio_history)
       IN  /\ NoTradeOn(i)
           /\ signals[i].Signal = 0
           /\ portfolio.shares > 0
           /\ signals[i].Price # signals[i - 1].Price
    /\ \E j \in Days : C21_Mismatch(j)

\* C23: the trade list is append-only and chronological: a step appends at most
\* one trade and changes no earlier record, every trade has shares > 0, and
\* trade dates are strictly increasing.
C23_AppendOnly ==
    /\ [](\A k \in 1..Len(trades) :
              /\ trades[k].shares > 0
              /\ k > 1 => trades[k - 1].date < trades[k].date)
    /\ [][/\ Len(trades') \in {Len(trades), Len(trades) + 1}
          /\ \A k \in 1..Len(trades) : trades'[k] = trades[k]]_vars
C23_Witness ==
    /\ Len(trades) >= 3
    /\ trades[3].date > trades[2].date + 1

\* C26: with max_position_size = 0.3, fee = 0.001 and prices > 0 the
\* affordability check never fails: a Buy signal while Flat with a share count
\* > 0 costs no more than cash and executes; a Buy is dropped only for a share
\* count of 0.
C26_BuyFlat(i) == signals[i].Signal = 1 /\ Before(i).shares = 0
C26_AlwaysAffordable ==
    \A i \in Days :
        C26_BuyFlat(i) =>
            LET n == ClaimedShares(Before(i).cash, signals[i].Price)
            IN  /\ n > 0 => /\ ClaimedCost(n, signals[i].Price) <= Before(i).cash
                            /\ ~NoTradeOn(i)
                /\ NoTradeOn(i) => n = 0
C26_Witness ==
    /\ \E i \in Days : C26_BuyFlat(i) /\ NoTradeOn(i)
    /\ \E i \in Days : /\ C26_BuyFlat(i) /\ ~NoTradeOn(i)
                       /\ Before(i).cash # initial_capital

\* C29: a trade never increases mark-to-market wealth: after a BUY or SELL of n
\* shares at price p, cash + shares * p is the pre-trade portfolio value minus
\* exactly 0.001 * n * p; a Buy followed by a Sell at the same price leaves
\* cash strictly lower than before the Buy.
C29_RoundTrip(i, j) ==
    /\ i < j
    /\ \E b \in TradesOn(signals[i].date), c \in TradesOn(signals[j].date) :
          /\ c = b + 1
          /\ trades[b].action = "BUY"
    /\ signals[i].Price = signals[j].Price
C29_TradeCostsFee ==
    /\ \A i \in Days : \A k \in TradesOn(signals[i].date) :
          /\ Before(i).portfolio_value = ClaimedValue(Before(i), signals[i].Price)
          /\ ClaimedValue(After(i), signals[i].Price)
                = Before(i).portfolio_value - trades[k].shares * signals[i].Price
    /\ \A i, j \in Days : C29_RoundTrip(i, j) => After(j).cash < Before(i).cash
C29_Witness ==
    \E i, j \in Days : C29_RoundTrip(i, j) /\ j > i + 1

\* C25: the Buy condition and the Sell condition never both hold at a
\* timestamp, whatever the readings, so the Sell-overwrites-Buy tie-break is
\* unreachable and the rule-based signal is the same when the two assignments
\* are made in the other order (Buy last).
C25_BuyLast(r) == IF ClaimedBuy(r) THEN 1 ELSE IF ClaimedSell(r) THEN -1 ELSE 0
C25_ConditionsDisjoint ==
    pc = "rule" =>
        \A i \in Rows :
            /\ ~(buy_condition(signals[i]) /\ sell_condition(signals[i]))
            /\ ~(ClaimedBuy(signals[i]) /\ ClaimedSell(signals[i]))
            /\ signals[i].Signal = C25_BuyLast(signals[i])
C25_Witness ==
    /\ pc = "rule"
    /\ \E i \in Rows : /\ signals[i].RSI = 20
                       /\ signals[i].MA20 > signals[i].MA50
                       /\ signals[i].MA50 # NaN
                       /\ signals[i].Signal = 1

\* C28: in the forced-exit walk, after processing any timestamp t the state is
\* in-position with entry date e only if (t - e).days < 30; the walk is
\* in-position exactly when an entry date is recorded.
C28_WalkWithin30 ==
    /\ in_position <=> buy_date # -1
    /\ (pc \in {"walk", "call", "sim", "done"} /\ wi > 1 /\ in_position)
          => signals[wi - 1].date - buy_date < 30
C28_Witness ==
    /\ pc = "walk" /\ wi > 1 /\ in_position
    /\ signals[wi - 1].date - buy_date >= 28
    /\ signals[wi - 1].Signal = 1

\* ------------------------------------ the walk's state and the ledger's state
\* The walk's state after row k, read off the returned table: flat after a
\* Sell row, in position from the first Buy row after the last Sell row.
SellRowsUpTo(k) == {m \in 1..k : signals[m].Signal = -1}
LastSellUpTo(k) ==
    IF SellRowsUpTo(k) = {} THEN 0
    ELSE CHOOSE m \in SellRowsUpTo(k) : \A j \in SellRowsUpTo(k) : j <= m
BuyRowsSince(k) == {m \in (LastSellUpTo(k) + 1)..k : signals[m].Signal = 1}
\* The row of the walk's entry if it is in position after row k, else 0.
WalkEntry(k) ==
    IF BuyRowsSince(k) = {} THEN 0
    ELSE CHOOSE m \in BuyRowsSince(k) : \A j \in BuyRowsSince(k) : m <= j

\* C27: when simulate_trading runs on the output of generate_signals, at every
\* timestamp at which the simulator holds shares the walk was in position too,
\* with an entry date on or before the simulator's BUY date: stated of the
\* timestamp processed last, which every timestamp is in some state.  (The converse
\* fails after a dropped Buy: the witness is a run in which the walk is in
\* position while the simulator is Flat, and a later position of the simulator
\* is force-closed 30 days from the walk's entry, not from the purchase.)
C27_HoldingImpliesInPosition ==
    /\ pc = "walk" =>
          /\ in_position <=> WalkEntry(wi - 1) # 0
          /\ in_position => buy_date = signals[WalkEntry(wi - 1)].date
    /\ (Simulating /\ portfolio.shares > 0) =>
          LET t == Len(portfolio_history)
              k == Len(trades)
          IN  /\ t > 0 /\ k > 0
              /\ WalkEntry(t) # 0
              /\ trades[k].action = "BUY"
              /\ signals[WalkEntry(t)].date <= trades[k].date
C27_Witness ==
    /\ pc = "done"
    /\ \E i \in Days : WalkEntry(i) # 0 /\ After(i).shares = 0
    /\ \E i \in Days : \E k \in TradesOn(signals[i].date) :
          /\ trades[k].action = "SELL"
          /\ ClaimedRule(signals[i]) # -1
          /\ k > 1 /\ i > 1 /\ WalkEntry(i - 1) # 0
          /\ trades[k].date - trades[k - 1].date < 30
          /\ trades[k].date - signals[WalkEntry(i - 1)].date >= 30

\* C24: asked to process a timestamp whose price is undefined (NaN),
\* simulate_trading rejects the run instead of carrying the undefined value
\* into cash, total_value, the trade list or the history: a run that goes on
\* or returns has processed no such timestamp and holds no undefined value.
C24_RejectsUndefinedPrice ==
    pc \in {"sim", "done"} =>
        /\ \A i \in Days : /\ ~Undefined(portfolio_history[i].price)
                           /\ ~Undefined(portfolio_history[i].portfolio_value)
        /\ ~Undefined(portfolio.cash)
        /\ ~Undefined(portfolio.total_value)
        /\ \A k \in 1..Len(trades) : ~Undefined(trades[k].value)

====
